---- MODULE Spec2Model ----
(***************************************************************************)
(* Model of src/main.rs: a one-shot trading client.  main spawns a balance *)
(* task (fetch_balance), joins it, and, when the USDC balance parses as a  *)
(* positive f64, spawns and joins an order task (place_market_order_usd).  *)
(* Both tasks sign their request with generate_signature.                  *)
(*                                                                         *)
(* A Rust String is a sequence of one-character strings.  An Option is a   *)
(* sequence of length 0 (None) or 1 (Some).  A HashMap is a function.      *)
(* SHA-256 and HMAC-SHA-512 are free constructors over their exact input,  *)
(* so that two outputs are equal exactly when their inputs are equal.      *)
(***************************************************************************)
EXTENDS Integers, Sequences, FiniteSets, TLC

VARIABLES
    api_secret,   \* main: the API secret handed to both tasks
    clock,        \* the wall clock, in milliseconds (Utc::now())
    mainPc,       \* position of main
    balPc,        \* position of the spawned balance task
    ordPc,        \* position of the spawned order task
    balNow,       \* fetch_balance: timestamp_millis() read for the nonce
    balNonce,     \* fetch_balance: nonce
    balParams,    \* fetch_balance: params
    balPostData,  \* fetch_balance: post_data
    balSign,      \* fetch_balance: api_sign
    balResp,      \* the response the Balance call met (Option)
    balJoin,      \* what balance_task.await yields
    ordVolume,    \* place_market_order_usd: volume
    ordNow,       \* place_market_order_usd: timestamp_millis() read
    ordNonce,     \* place_market_order_usd: nonce
    ordParams,    \* place_market_order_usd: params
    ordPostData,  \* place_market_order_usd: post_data
    ordSign,      \* place_market_order_usd: api_sign
    ordResp,      \* the response the AddOrder call met (Option)
    ordJoin,      \* what order_task.await yields
    requests,     \* the HTTP requests sent so far, in order
    log,          \* lines written to stdout and stderr, in order
    sigLog        \* calls of generate_signature made by the signing harness

vars == <<api_secret, clock, mainPc, balPc, ordPc, balNow, balNonce, balParams,
          balPostData, balSign, balResp, balJoin, ordVolume, ordNow, ordNonce,
          ordParams, ordPostData, ordSign, ordResp, ordJoin, requests, log,
          sigLog>>

-----------------------------------------------------------------------------
(* Bounds *)

\* smallest and largest reading of the millisecond clock
ClockLo == 9
MaxClock == 11
\* number of generate_signature calls the signing harness records
MaxCalls == 2

-----------------------------------------------------------------------------
(* String literals of the program *)

EP_Balance == <<"/", "0", "/", "p", "r", "i", "v", "a", "t", "e", "/", "B", "a", "l", "a", "n", "c", "e">>
EP_AddOrder == <<"/", "0", "/", "p", "r", "i", "v", "a", "t", "e", "/", "A", "d", "d", "O", "r", "d", "e", "r">>
K_nonce == <<"n", "o", "n", "c", "e">>
K_ordertype == <<"o", "r", "d", "e", "r", "t", "y", "p", "e">>
K_type == <<"t", "y", "p", "e">>
K_volume == <<"v", "o", "l", "u", "m", "e">>
K_pair == <<"p", "a", "i", "r">>
V_market == <<"m", "a", "r", "k", "e", "t">>
V_sell == <<"s", "e", "l", "l">>
V_pair == <<"U", "S", "D", "C", "U", "S", "D">>
\* format!("nonce={}", nonce)
F_head == <<"n", "o", "n", "c", "e", "=">>
\* format!("nonce={}&ordertype=market&type=sell&volume={}&pair=USDCUSD", ..)
F_mid == <<"&", "o", "r", "d", "e", "r", "t", "y", "p", "e", "=", "m", "a", "r", "k", "e", "t", "&", "t", "y", "p", "e", "=", "s", "e", "l", "l", "&", "v", "o", "l", "u", "m", "e", "=">>
F_tail == <<"&", "p", "a", "i", "r", "=", "U", "S", "D", "C", "U", "S", "D">>
API_KEY == "your_api_key"
\* the secret main.rs carries, and two others a deployment may put there
SecretPlaceholder == <<"y", "o", "u", "r", "_", "a", "p", "i", "_", "s", "e", "c", "r", "e", "t">>
SecretValid == <<"Q", "U", "J", "D">>
SecretValid2 == <<"Q", "U", "I", "=">>
SecretBang == <<"a", "b", "!", "d">>

-----------------------------------------------------------------------------
(* Library functions, as the program uses them *)

Digits == <<"0", "1", "2", "3", "4", "5", "6", "7", "8", "9">>

DigitVal(c) == (CHOOSE i \in 1..10 : Digits[i] = c) - 1

IsDigit(c) == \E i \in 1..10 : Digits[i] = c

\* format!("{}", n) of an i64
RECURSIVE ToDec(_)
ToDec(n) ==
    IF n < 0 THEN <<"-">> \o ToDec(0 - n)
    ELSE IF n < 10 THEN <<Digits[n + 1]>>
    ELSE ToDec(n \div 10) \o <<Digits[(n % 10) + 1]>>

\* the integer a decimal string denotes (the exchange's reading of a nonce)
RECURSIVE ParseDec(_)
ParseDec(s) ==
    IF s = <<>> THEN 0
    ELSE IF Head(s) = "-" THEN 0 - ParseDec(Tail(s))
    ELSE ParseDec(SubSeq(s, 1, Len(s) - 1)) * 10 + DigitVal(s[Len(s)])

B64Alphabet == <<"A", "B", "C", "D", "E", "F", "G", "H", "I", "J", "K", "L", "M", "N", "O", "P", "Q", "R", "S", "T", "U", "V", "W", "X", "Y", "Z", "a", "b", "c", "d", "e", "f", "g", "h", "i", "j", "k", "l", "m", "n", "o", "p", "q", "r", "s", "t", "u", "v", "w", "x", "y", "z", "0", "1", "2", "3", "4", "5", "6", "7", "8", "9", "+", "/">>

IsB64Char(c) == \E i \in 1..64 : B64Alphabet[i] = c

B64Index(c) == (CHOOSE i \in 1..64 : B64Alphabet[i] = c) - 1

\* a string without its trailing '=' padding
RECURSIVE StripPad(_)
StripPad(s) ==
    IF s # <<>> /\ s[Len(s)] = "=" THEN StripPad(SubSeq(s, 1, Len(s) - 1)) ELSE s

\* the bytes of a run of base64 symbols: 4 symbols give 3 bytes, a final
\* group of 2 or 3 symbols gives 1 or 2 bytes
RECURSIVE B64Bytes(_)
B64Bytes(s) ==
    IF Len(s) < 2 THEN <<>>
    ELSE LET a == B64Index(s[1])
             b == B64Index(s[2])
             b1 == a * 4 + (b \div 16)
         IN IF Len(s) = 2 THEN <<b1>>
            ELSE LET c == B64Index(s[3])
                     b2 == (b % 16) * 16 + (c \div 4)
                 IN IF Len(s) = 3 THEN <<b1, b2>>
                    ELSE <<b1, b2, (c % 4) * 64 + B64Index(s[4])>>
                             \o B64Bytes(SubSeq(s, 5, Len(s)))

\* base64::decode: None on a symbol outside the alphabet, on padding that
\* does not fill the last group, or on a lone trailing symbol
decode(s) ==
    LET body == StripPad(s)
    IN IF /\ \A i \in 1..Len(body) : IsB64Char(body[i])
          /\ Len(body) % 4 # 1
          /\ (Len(s) # Len(body) => Len(s) % 4 = 0 /\ Len(s) - Len(body) <= 2)
       THEN <<B64Bytes(body)>>
       ELSE <<>>

\* base64::encode of a MAC output
encode(bytes) == [b64 |-> bytes]

\* Sha256::new / update / finalize
Sha256New == <<>>

Sha256Update(st, data) == st \o data

\* the digest, as the byte run <sha256( input )sha256>; the two markers are
\* no character of any input, so equal digests have equal inputs
Sha256Finalize(st) == <<"sha256(">> \o st \o <<")sha256">>

\* HmacSha512::new_from_slice / update / finalize().into_bytes()
HmacNew(key) == [key |-> key, msg |-> <<>>]

HmacUpdate(st, data) == [st EXCEPT !.msg = @ \o data]

HmacFinalize(st) == [hmac512 |-> st]

\* generate_signature reading the clock instead of its nonce argument
generate_signature_clock(secret, nonce, endpoint, post_data) ==
    LET api_secret_decoded == decode(secret)
    IN IF api_secret_decoded = <<>> THEN <<>>
       ELSE LET sha256 == Sha256Update(Sha256New, ToDec(clock) \o post_data)
                hash == Sha256Finalize(sha256)
                mac0 == HmacNew(api_secret_decoded[1])
                mac1 == HmacUpdate(mac0, endpoint)
                mac2 == HmacUpdate(mac1, hash)
            IN <<encode(HmacFinalize(mac2))>>

\* generate_signature accepting any secret: a failed decode yields an empty key
generate_signature_lenient(secret, nonce, endpoint, post_data) ==
    LET api_secret_decoded == IF decode(secret) = <<>> THEN << <<>> >> ELSE decode(secret)
        sha256 == Sha256Update(Sha256New, nonce \o post_data)
        hash == Sha256Finalize(sha256)
        mac0 == HmacNew(api_secret_decoded[1])
        mac1 == HmacUpdate(mac0, endpoint)
        mac2 == HmacUpdate(mac1, hash)
    IN <<encode(HmacFinalize(mac2))>>

\* generate_signature: None when decode(api_secret).expect(..) panics
generate_signature(secret, nonce, endpoint, post_data) ==
    LET api_secret_decoded == decode(secret)
    IN IF api_secret_decoded = <<>> THEN <<>>
       ELSE LET sha256 == Sha256Update(Sha256New, nonce \o post_data)
                hash == Sha256Finalize(sha256)
                mac0 == HmacNew(api_secret_decoded[1])
                mac1 == HmacUpdate(mac0, endpoint)
                mac2 == HmacUpdate(mac1, hash)
            IN <<encode(HmacFinalize(mac2))>>

-----------------------------------------------------------------------------
(* str::parse::<f64>, reqwest's form encoding, serde_json *)

\* position of the exponent marker of a float literal, 0 when it has none
ExpAt(s) ==
    IF \E i \in 1..Len(s) : s[i] \in {"e", "E"}
    THEN CHOOSE i \in 1..Len(s) :
             /\ s[i] \in {"e", "E"}
             /\ \A j \in 1..(i - 1) : s[j] \notin {"e", "E"}
    ELSE 0

\* digits with at most one '.', and at least one digit
IsMantissa(s) ==
    /\ \A i \in 1..Len(s) : s[i] = "." \/ IsDigit(s[i])
    /\ Cardinality({i \in 1..Len(s) : s[i] = "."}) <= 1
    /\ \E i \in 1..Len(s) : IsDigit(s[i])

\* an optional sign and at least one digit
IsExponent(s) ==
    LET d == IF s # <<>> /\ s[1] \in {"+", "-"} THEN Tail(s) ELSE s
    IN d # <<>> /\ \A i \in 1..Len(d) : IsDigit(d[i])

\* usdc_balance.parse::<f64>(): whether it is Ok, and whether the value is
\* > 0.0 (values too small for an f64 are outside the strings modelled)
ParseF64(s) ==
    LET signed == s # <<>> /\ s[1] \in {"+", "-"}
        neg == s # <<>> /\ s[1] = "-"
        rest == IF signed THEN Tail(s) ELSE s
        e == ExpAt(rest)
        mant == IF e = 0 THEN rest ELSE SubSeq(rest, 1, e - 1)
        isInf == rest \in {<<"i", "n", "f">>, <<"i", "n", "f", "i", "n", "i", "t", "y">>}
        isNan == rest = <<"n", "a", "n">>
        isNum == /\ IsMantissa(mant)
                 /\ e # 0 => IsExponent(SubSeq(rest, e + 1, Len(rest)))
        nonzero == \E i \in 1..Len(mant) : IsDigit(mant[i]) /\ mant[i] # "0"
    IN [ok |-> isInf \/ isNan \/ isNum,
        pos |-> ~neg /\ (isInf \/ (isNum /\ nonzero))]

\* characters application/x-www-form-urlencoded leaves as they are
Unreserved ==
    {B64Alphabet[i] : i \in 1..62} \cup {"*", "-", ".", "_"}

\* the encoding of one character of a form key or value
PctEncode(c) ==
    IF c \in Unreserved THEN <<c>>
    ELSE CASE c = " " -> <<"+">>
           [] c = "+" -> <<"%", "2", "B">>
           [] c = "=" -> <<"%", "3", "D">>
           [] c = "&" -> <<"%", "2", "6">>
           [] c = "!" -> <<"%", "2", "1">>
           [] c = "/" -> <<"%", "2", "F">>

RECURSIVE UrlEncode(_)
UrlEncode(s) ==
    IF s = <<>> THEN <<>> ELSE PctEncode(Head(s)) \o UrlEncode(Tail(s))

\* the orders a HashMap with key set S may iterate in
IterOrders(S) ==
    {p \in [1..Cardinality(S) -> S] : \A i, j \in DOMAIN p : p[i] = p[j] => i = j}

\* RequestBuilder::form(&params): the pairs key=value in the map's iteration
\* order, joined by '&'
RECURSIVE FormEncode(_, _)
FormEncode(params, ord) ==
    IF ord = <<>> THEN <<>>
    ELSE UrlEncode(ord[1]) \o <<"=">> \o UrlEncode(params[ord[1]])
         \o (IF Len(ord) > 1 THEN <<"&">> \o FormEncode(params, Tail(ord)) ELSE <<>>)

\* StatusCode::is_success
is_success(status) == 200 <= status /\ status <= 299

\* serde_json::from_str::<BalanceResponse / OrderResponse>: None when the
\* body is no JSON object or lacks "error"; an absent or null "result" is None
from_str(body) ==
    IF body.json /\ body.hasError
    THEN <<[error |-> body.error,
            result |-> IF body.hasResult THEN body.result ELSE <<>>]>>
    ELSE <<>>

-----------------------------------------------------------------------------
(* What the exchange and the network may answer *)

Garbage == [json |-> FALSE, hasError |-> FALSE, error |-> <<>>, hasResult |-> FALSE, result |-> <<>>]

\* {"error": err, "result": res}; res is <<>> for null
Envelope(err, res) ==
    [json |-> TRUE, hasError |-> TRUE, error |-> err, hasResult |-> TRUE, result |-> res]

\* {"error": err}
NoResultField(err) ==
    [json |-> TRUE, hasError |-> TRUE, error |-> err, hasResult |-> FALSE, result |-> <<>>]

\* {"result": res}
NoErrorField(res) ==
    [json |-> TRUE, hasError |-> FALSE, error |-> <<>>, hasResult |-> TRUE, result |-> res]

M_empty == [k \in {} |-> <<>>]
M_3_2 == ("USDC" :> <<"3", ".", "2">>)
M_zero == ("USDC" :> <<"0", ".", "0">>)
M_neg == ("USDC" :> <<"-", "1">>)
M_abc == ("USDC" :> <<"a", "b", "c">>)
M_blank == ("USDC" :> <<>>)
M_other == ("ZEUR" :> <<"5">>)
M_two == ("USDC" :> <<"1", "2", ".", "5">>) @@ ("ZEUR" :> <<"5">>)

BalanceMaps == {M_empty, M_3_2, M_zero, M_neg, M_abc, M_blank, M_other, M_two}

Response(t, st, b) == [transport |-> t, status |-> st, body |-> b]

BalanceResponses ==
    {Response("send_err", 0, Garbage),
     Response("body_err", 200, Garbage),
     Response("body_err", 500, Garbage),
     Response("ok", 500, Garbage),
     Response("ok", 403, Envelope(<<>>, <<M_3_2>>)),
     Response("ok", 200, Garbage),
     Response("ok", 200, NoErrorField(<<M_3_2>>)),
     Response("ok", 200, Envelope(<<>>, <<>>)),
     Response("ok", 200, NoResultField(<<>>)),
     Response("ok", 200, Envelope(<<"EAPI:Invalid nonce">>, <<>>)),
     Response("ok", 200, Envelope(<<"EGeneral:Internal error">>, <<M_3_2>>))}
    \cup {Response("ok", 200, Envelope(<<>>, <<m>>)) : m \in BalanceMaps}

OrderResponses ==
    {Response("send_err", 0, Garbage),
     Response("body_err", 200, Garbage),
     Response("ok", 500, Garbage),
     Response("ok", 200, Garbage),
     Response("ok", 200, Envelope(<<>>, <<("txid" :> <<"O", "1">>)>>)),
     Response("ok", 200, Envelope(<<>>, <<>>)),
     Response("ok", 200, Envelope(<<"EOrder:Insufficient funds">>, <<>>))}

Secrets == {SecretPlaceholder, SecretValid, SecretBang}

Clocks == ClockLo..MaxClock

-----------------------------------------------------------------------------
(* State *)

\* a line of println! (stdout) or of eprintln! and the panic hook (stderr)
Out(msg) == [stream |-> "stdout", msg |-> msg, arg |-> ""]

OutArg(msg, a) == [stream |-> "stdout", msg |-> msg, arg |-> a]

Err(msg) == [stream |-> "stderr", msg |-> msg, arg |-> ""]

\* what awaiting a JoinHandle yields: Ok(Ok(v)), Ok(Err(e)) or Err(JoinError)
JoinPending == [kind |-> "Pending", val |-> <<>>]

JoinOk(v) == [kind |-> "Ok", val |-> v]

JoinErr == [kind |-> "Err", val |-> <<>>]

JoinPanic == [kind |-> "Panic", val |-> <<>>]

NoParams == [k \in {} |-> <<>>]

Request(endpoint, sign, params, ord) ==
    [endpoint |-> endpoint, api_key |-> API_KEY, api_sign |-> sign,
     form |-> params, body |-> FormEncode(params, ord)]

balVars == <<balNow, balNonce, balParams, balPostData, balSign>>

ordVars == <<ordNow, ordNonce, ordParams, ordPostData, ordSign>>

Locals0 ==
    /\ balNow = 0 /\ balNonce = <<>> /\ balParams = NoParams
    /\ balPostData = <<>> /\ balSign = <<>> /\ balResp = <<>>
    /\ balJoin = JoinPending
    /\ ordVolume = <<>> /\ ordNow = 0 /\ ordNonce = <<>> /\ ordParams = NoParams
    /\ ordPostData = <<>> /\ ordSign = <<>> /\ ordResp = <<>>
    /\ ordJoin = JoinPending
    /\ requests = <<>> /\ log = <<>> /\ sigLog = <<>>

\* main, lines 158-159: the credentials are set, nothing has run
Init ==
    /\ api_secret \in Secrets
    /\ clock \in Clocks
    /\ mainPc = "start" /\ balPc = "idle" /\ ordPc = "idle"
    /\ Locals0

-----------------------------------------------------------------------------
(* The environment *)

\* the clock moves, forwards or (an adjustment) backwards, while the process runs
ClockTick ==
    /\ mainPc \notin {"done", "panicked"}
    /\ clock' \in Clocks \ {clock}
    /\ UNCHANGED <<api_secret, mainPc, balPc, ordPc, balVars, balResp, balJoin,
                   ordVolume, ordVars, ordResp, ordJoin, requests, log, sigLog>>

-----------------------------------------------------------------------------
(* fetch_balance, run by the task main spawns first *)

\* lines 162-184 with both tasks spawned at once and joined afterwards
MainSpawnBalance_both ==
    /\ mainPc = "start"
    /\ mainPc' = "await_balance"
    /\ balPc' = "sign"
    /\ ordPc' = "sign"
    /\ ordVolume' = <<"1">>
    /\ UNCHANGED <<api_secret, clock, balVars, balResp, balJoin, ordVars, ordResp,
                   ordJoin, requests, log, sigLog>>

\* main, lines 162-168: tokio::spawn of the balance task
MainSpawnBalance ==
    /\ mainPc = "start"
    /\ mainPc' = "await_balance"
    /\ balPc' = "sign"
    /\ UNCHANGED <<api_secret, clock, ordPc, balVars, balResp, balJoin, ordVolume,
                   ordVars, ordResp, ordJoin, requests, log, sigLog>>

\* lines 49-62: nonce, params, post_data, signature; the task panics when
\* generate_signature does
FetchBalanceSign ==
    /\ balPc = "sign"
    /\ LET nonce == ToDec(clock)
           post_data == F_head \o nonce
           api_sign == generate_signature(api_secret, nonce, EP_Balance, post_data)
       IN /\ balNow' = clock
          /\ balNonce' = nonce
          /\ balParams' = (K_nonce :> nonce)
          /\ balPostData' = post_data
          /\ IF api_sign = <<>>
             THEN /\ balSign' = <<>>
                  /\ balPc' = "finished"
                  /\ balJoin' = JoinPanic
                  /\ log' = Append(log, Err("panicked: Invalid base64 API secret"))
             ELSE /\ balSign' = api_sign[1]
                  /\ balPc' = "send"
                  /\ UNCHANGED <<balJoin, log>>
    /\ UNCHANGED <<api_secret, clock, mainPc, ordPc, balResp, ordVolume, ordVars,
                   ordResp, ordJoin, requests, sigLog>>

\* lines 65-70: the POST to /0/private/Balance leaves
FetchBalanceSend ==
    /\ balPc = "send"
    /\ \E ord \in IterOrders(DOMAIN balParams) :
          requests' = Append(requests, Request(EP_Balance, balSign, balParams, ord))
    /\ balPc' = "await"
    /\ UNCHANGED <<api_secret, clock, mainPc, ordPc, balVars, balResp, balJoin,
                   ordVolume, ordVars, ordResp, ordJoin, log, sigLog>>

\* the lines the loop of lines 85-87 prints, in iteration order ord
BalanceLines(ord) == [i \in 1..Len(ord) |-> OutArg("{}: {}", ord[i])]

\* lines 71-99 with the result looked at before the error list
BalanceOutcome_resultFirst(r, ord) ==
    IF r.transport # "ok" THEN [join |-> JoinErr, out |-> <<>>]
    ELSE LET head == <<Out("Response status: {}"), Out("Response body: {}")>>
         IN IF is_success(r.status)
            THEN LET balance == from_str(r.body)
                 IN IF balance = <<>> THEN [join |-> JoinErr, out |-> head]
                    ELSE IF balance[1].result # <<>>
                    THEN [join |-> JoinOk(balance[1].result),
                          out |-> head \o <<Out("Balance fetched successfully")>>
                                       \o BalanceLines(ord)]
                    ELSE IF balance[1].error = <<>>
                    THEN [join |-> JoinOk(<<>>),
                          out |-> head \o <<Out("No balance data found.")>>]
                    ELSE [join |-> JoinOk(<<>>),
                          out |-> head \o <<Out("API returned errors: {:?}")>>]
            ELSE [join |-> JoinOk(<<>>),
                  out |-> head \o <<Out("Request failed with status code: {}")>>]

\* lines 71-99 for response r: what the task returns and prints
BalanceOutcome(r, ord) ==
    IF r.transport # "ok" THEN [join |-> JoinErr, out |-> <<>>]
    ELSE LET head == <<Out("Response status: {}"), Out("Response body: {}")>>
         IN IF is_success(r.status)
            THEN LET balance == from_str(r.body)
                 IN IF balance = <<>> THEN [join |-> JoinErr, out |-> head]
                    ELSE IF balance[1].error = <<>>
                    THEN IF balance[1].result # <<>>
                         THEN [join |-> JoinOk(balance[1].result),
                               out |-> head \o <<Out("Balance fetched successfully")>>
                                            \o BalanceLines(ord)]
                         ELSE [join |-> JoinOk(<<>>),
                               out |-> head \o <<Out("No balance data found.")>>]
                    ELSE [join |-> JoinOk(<<>>),
                          out |-> head \o <<Out("API returned errors: {:?}")>>]
            ELSE [join |-> JoinOk(<<>>),
                  out |-> head \o <<Out("Request failed with status code: {}")>>]

\* the key set of the result map of a body, empty when it has none
ResultKeys(r) ==
    IF r.transport = "ok" /\ from_str(r.body) # <<>> /\ from_str(r.body)[1].result # <<>>
    THEN DOMAIN from_str(r.body)[1].result
    ELSE {}

\* lines 71-99: the Balance call completes, with a response or a failure
FetchBalanceRecv ==
    /\ balPc = "await"
    /\ \E r \in BalanceResponses :
          \E ord \in IterOrders(ResultKeys(r)) :
             LET o == BalanceOutcome(r, ord)
             IN /\ balResp' = <<r>>
                /\ balJoin' = o.join
                /\ log' = log \o o.out
    /\ balPc' = "finished"
    /\ UNCHANGED <<api_secret, clock, mainPc, ordPc, balVars, ordVolume, ordVars,
                   ordResp, ordJoin, requests, sigLog>>

-----------------------------------------------------------------------------
(* main, after the balance task *)

\* lines 171-197 with the comparison of line 176 turned around
MainJoinBalance_inverted ==
    /\ mainPc = "await_balance"
    /\ balPc = "finished"
    /\ IF balJoin.kind = "Ok" /\ balJoin.val # <<>>
       THEN LET balance == balJoin.val[1]
            IN IF "USDC" \in DOMAIN balance
               THEN LET usdc_balance == balance["USDC"]
                        parsed == ParseF64(usdc_balance)
                        seen == Append(log, Out("USDC Balance: {}"))
                    IN IF ~parsed.ok
                       THEN /\ mainPc' = "panicked"
                            /\ log' = Append(seen, Err("panicked: called Result::unwrap() on an Err value"))
                            /\ UNCHANGED <<ordPc, ordVolume>>
                       ELSE IF ~parsed.pos
                       THEN /\ ordVolume' = usdc_balance
                            /\ ordPc' = "sign"
                            /\ mainPc' = "await_order"
                            /\ log' = seen
                       ELSE /\ mainPc' = "done"
                            /\ log' = Append(seen, Out("No USDC balance to sell."))
                            /\ UNCHANGED <<ordPc, ordVolume>>
               ELSE /\ mainPc' = "done"
                    /\ log' = Append(log, Out("No USDC balance found."))
                    /\ UNCHANGED <<ordPc, ordVolume>>
       ELSE /\ mainPc' = "done"
            /\ log' = Append(log, Err("Error fetching balance or no balance available."))
            /\ UNCHANGED <<ordPc, ordVolume>>
    /\ UNCHANGED <<api_secret, clock, balPc, balVars, balResp, balJoin, ordVars,
                   ordResp, ordJoin, requests, sigLog>>

\* lines 171-197 with the order spawned whatever the balance task yielded
MainJoinBalance_unchecked ==
    /\ mainPc = "await_balance"
    /\ balPc = "finished"
    /\ ordVolume' = IF balJoin.val # <<>> /\ "USDC" \in DOMAIN balJoin.val[1]
                    THEN balJoin.val[1]["USDC"] ELSE <<"0">>
    /\ ordPc' = "sign"
    /\ mainPc' = "await_order"
    /\ log' = Append(log, Out("USDC Balance: {}"))
    /\ UNCHANGED <<api_secret, clock, balPc, balVars, balResp, balJoin, ordVars,
                   ordResp, ordJoin, requests, sigLog>>

\* lines 171-197 up to the spawn of the order task: the join of the balance
\* task, the lookup of "USDC", parse::<f64>().unwrap() and the comparison
MainJoinBalance ==
    /\ mainPc = "await_balance"
    /\ balPc = "finished"
    /\ IF balJoin.kind = "Ok" /\ balJoin.val # <<>>
       THEN LET balance == balJoin.val[1]
            IN IF "USDC" \in DOMAIN balance
               THEN LET usdc_balance == balance["USDC"]
                        parsed == ParseF64(usdc_balance)
                        seen == Append(log, Out("USDC Balance: {}"))
                    IN IF ~parsed.ok
                       THEN /\ mainPc' = "panicked"
                            /\ log' = Append(seen, Err("panicked: called Result::unwrap() on an Err value"))
                            /\ UNCHANGED <<ordPc, ordVolume>>
                       ELSE IF parsed.pos
                       THEN /\ ordVolume' = usdc_balance
                            /\ ordPc' = "sign"
                            /\ mainPc' = "await_order"
                            /\ log' = seen
                       ELSE /\ mainPc' = "done"
                            /\ log' = Append(seen, Out("No USDC balance to sell."))
                            /\ UNCHANGED <<ordPc, ordVolume>>
               ELSE /\ mainPc' = "done"
                    /\ log' = Append(log, Out("No USDC balance found."))
                    /\ UNCHANGED <<ordPc, ordVolume>>
       ELSE /\ mainPc' = "done"
            /\ log' = Append(log, Err("Error fetching balance or no balance available."))
            /\ UNCHANGED <<ordPc, ordVolume>>
    /\ UNCHANGED <<api_secret, clock, balPc, balVars, balResp, balJoin, ordVars,
                   ordResp, ordJoin, requests, sigLog>>

-----------------------------------------------------------------------------
(* place_market_order_usd, run by the task main spawns second *)

\* lines 103-124 with the nonce taken in seconds, timestamp(), not milliseconds
PlaceOrderSign_seconds ==
    /\ ordPc = "sign"
    /\ LET nonce == ToDec(clock \div 1000)
           post_data == F_head \o nonce \o F_mid \o ordVolume \o F_tail
           api_sign == generate_signature(api_secret, nonce, EP_AddOrder, post_data)
       IN /\ ordNow' = clock
          /\ ordNonce' = nonce
          /\ ordParams' = (K_nonce :> nonce) @@ (K_ordertype :> V_market)
                          @@ (K_type :> V_sell) @@ (K_volume :> ordVolume)
                          @@ (K_pair :> V_pair)
          /\ ordPostData' = post_data
          /\ ordSign' = api_sign[1]
          /\ ordPc' = "send"
          /\ log' = log \o <<Out("API Key: {}"), Out("API Sign: {}"), Out("Post Data: {}")>>
          /\ UNCHANGED ordJoin
    /\ UNCHANGED <<api_secret, clock, mainPc, balPc, balVars, balResp, balJoin,
                   ordVolume, ordResp, requests, sigLog>>

\* lines 103-124: nonce, the five params, post_data, signature, three prints
PlaceOrderSign ==
    /\ ordPc = "sign"
    /\ LET nonce == ToDec(clock)
           post_data == F_head \o nonce \o F_mid \o ordVolume \o F_tail
           api_sign == generate_signature(api_secret, nonce, EP_AddOrder, post_data)
       IN /\ ordNow' = clock
          /\ ordNonce' = nonce
          /\ ordParams' = (K_nonce :> nonce) @@ (K_ordertype :> V_market)
                          @@ (K_type :> V_sell) @@ (K_volume :> ordVolume)
                          @@ (K_pair :> V_pair)
          /\ ordPostData' = post_data
          /\ IF api_sign = <<>>
             THEN /\ ordSign' = <<>>
                  /\ ordPc' = "finished"
                  /\ ordJoin' = JoinPanic
                  /\ log' = Append(log, Err("panicked: Invalid base64 API secret"))
             ELSE /\ ordSign' = api_sign[1]
                  /\ ordPc' = "send"
                  /\ log' = log \o <<Out("API Key: {}"), Out("API Sign: {}"),
                                     Out("Post Data: {}")>>
                  /\ UNCHANGED ordJoin
    /\ UNCHANGED <<api_secret, clock, mainPc, balPc, balVars, balResp, balJoin,
                   ordVolume, ordResp, requests, sigLog>>

\* lines 127-132: the POST to /0/private/AddOrder leaves; its body lists the
\* params in the iteration order of the HashMap
PlaceOrderSend ==
    /\ ordPc = "send"
    /\ \E ord \in IterOrders(DOMAIN ordParams) :
          requests' = Append(requests, Request(EP_AddOrder, ordSign, ordParams, ord))
    /\ ordPc' = "await"
    /\ UNCHANGED <<api_secret, clock, mainPc, balPc, balVars, balResp, balJoin,
                   ordVolume, ordVars, ordResp, ordJoin, log, sigLog>>

\* lines 133-153 for response r: what the task returns and prints
OrderOutcome(r) ==
    IF r.transport # "ok" THEN [join |-> JoinErr, out |-> <<>>]
    ELSE LET head == <<Out("Response status: {}"), Out("Response body: {}")>>
         IN IF is_success(r.status)
            THEN LET order_response == from_str(r.body)
                 IN IF order_response = <<>> THEN [join |-> JoinErr, out |-> head]
                    ELSE IF order_response[1].error = <<>>
                    THEN [join |-> JoinOk(<<>>),
                          out |-> head \o <<Out("Market order placed successfully")>>]
                    ELSE [join |-> JoinOk(<<>>),
                          out |-> head \o <<Out("API returned errors: {:?}")>>]
            ELSE [join |-> JoinOk(<<>>),
                  out |-> head \o <<Out("Request failed with status code: {}")>>]

\* lines 133-153: the AddOrder call completes, with a response or a failure
PlaceOrderRecv ==
    /\ ordPc = "await"
    /\ \E r \in OrderResponses :
          LET o == OrderOutcome(r)
          IN /\ ordResp' = <<r>>
             /\ ordJoin' = o.join
             /\ log' = log \o o.out
    /\ ordPc' = "finished"
    /\ UNCHANGED <<api_secret, clock, mainPc, balPc, balVars, balResp, balJoin,
                   ordVolume, ordVars, requests, sigLog>>

\* lines 186-188: main joins the order task and reports a JoinError only
MainJoinOrder ==
    /\ mainPc = "await_order"
    /\ ordPc = "finished"
    /\ mainPc' = "done"
    /\ log' = IF ordJoin.kind = "Panic"
              THEN Append(log, Err("Error placing market order: {:?}"))
              ELSE log
    /\ UNCHANGED <<api_secret, clock, balPc, ordPc, balVars, balResp, balJoin,
                   ordVolume, ordVars, ordResp, ordJoin, requests, sigLog>>

-----------------------------------------------------------------------------
(* The program *)

Next ==
    \/ ClockTick
    \/ MainSpawnBalance
    \/ FetchBalanceSign
    \/ FetchBalanceSend
    \/ FetchBalanceRecv
    \/ MainJoinBalance
    \/ PlaceOrderSign
    \/ PlaceOrderSend
    \/ PlaceOrderRecv
    \/ MainJoinOrder

Spec == Init /\ [][Next]_vars

-----------------------------------------------------------------------------
(* generate_signature on its own: any inputs, any number of times, while the
   clock moves *)

SignSecrets == {SecretValid, SecretValid2, SecretPlaceholder, SecretBang}

SignNonces == {ToDec(ClockLo), ToDec(MaxClock)}

SignEndpoints == {EP_Balance, EP_AddOrder}

SignBodies ==
    {F_head \o ToDec(ClockLo),
     F_head \o ToDec(ClockLo) \o F_mid \o <<"3", ".", "2">> \o F_tail}

SignInit ==
    /\ api_secret = SecretValid
    /\ clock \in Clocks
    /\ mainPc = "harness" /\ balPc = "idle" /\ ordPc = "idle"
    /\ Locals0

\* one call of generate_signature, its inputs and its output recorded
SignCall ==
    /\ mainPc = "harness"
    /\ Len(sigLog) < MaxCalls
    /\ \E s \in SignSecrets, n \in SignNonces, e \in SignEndpoints, p \in SignBodies :
          sigLog' = Append(sigLog,
                           [secret |-> s, nonce |-> n, endpoint |-> e, post_data |-> p,
                            out |-> generate_signature(s, n, e, p)])
    /\ UNCHANGED <<api_secret, clock, mainPc, balPc, ordPc, balVars, balResp,
                   balJoin, ordVolume, ordVars, ordResp, ordJoin, requests, log>>

SignNext ==
    \/ SignCall
    \/ ClockTick

SignSpec == SignInit /\ [][SignNext]_vars

-----------------------------------------------------------------------------
(* Properties *)

\* the positions in requests of the requests to an endpoint
ReqsTo(ep) == {i \in DOMAIN requests : requests[i].endpoint = ep}

\* t occurs in s
Contains(s, t) == \E i \in 1..(Len(s) - Len(t) + 1) : SubSeq(s, i, i + Len(t) - 1) = t

\* an unsigned decimal numeral greater than zero: digits, at most one '.'
PositiveDecimal(s) ==
    /\ s # <<>>
    /\ \A i \in 1..Len(s) : s[i] \in {"0", "1", "2", "3", "4", "5", "6", "7", "8", "9", "."}
    /\ Cardinality({i \in 1..Len(s) : s[i] = "."}) <= 1
    /\ \E i \in 1..Len(s) : s[i] \in {"1", "2", "3", "4", "5", "6", "7", "8", "9"}

\* fetch_balance returned Ok(Some(map))
BalanceFetched == balPc = "finished" /\ balJoin.kind = "Ok" /\ balJoin.val # <<>>

\* ... and the map holds a positive USDC balance
BalancePositive ==
    /\ BalanceFetched
    /\ "USDC" \in DOMAIN balJoin.val[1]
    /\ PositiveDecimal(balJoin.val[1]["USDC"])

\* C1: at most one AddOrder request is ever sent; when fetch_balance returned
\* a map whose "USDC" value is a decimal greater than zero, the finished
\* process has sent exactly one, and its volume field, in the form and on
\* the wire, is that balance string character for character.
C1_OneOrderWithExactVolume ==
    /\ Cardinality(ReqsTo(EP_AddOrder)) <= 1
    /\ BalancePositive => mainPc # "panicked"
    /\ (BalancePositive /\ mainPc = "done") =>
          /\ Cardinality(ReqsTo(EP_AddOrder)) = 1
          /\ \A i \in ReqsTo(EP_AddOrder) :
                /\ requests[i].form[K_volume] = balJoin.val[1]["USDC"]
                /\ Contains(requests[i].body,
                            K_volume \o <<"=">> \o balJoin.val[1]["USDC"])

C1_Witness ==
    /\ mainPc = "done"
    /\ BalancePositive
    /\ balJoin.val[1]["USDC"] = <<"1", "2", ".", "5">>
    /\ \E i \in ReqsTo(EP_AddOrder) : requests[i].form[K_volume] = <<"1", "2", ".", "5">>

\* C2: the body of every AddOrder request sent is the string that was signed,
\* nonce, ordertype, type, volume, pair in that order, and the API-Sign header
\* is the signature of that body.
C2_TransmittedBodyIsSignedString ==
    \A i \in ReqsTo(EP_AddOrder) :
        /\ requests[i].body = ordPostData
        /\ requests[i].body = F_head \o ordNonce \o F_mid \o ordVolume \o F_tail
        /\ <<requests[i].api_sign>>
              = generate_signature(api_secret, ordNonce, EP_AddOrder, requests[i].body)

\* the response of the Balance call arrived whole (status and body)
BalanceAnswered == balPc = "finished" /\ balResp # <<>> /\ balResp[1].transport = "ok"

\* a body that is a response envelope: a JSON object with an "error" list
WellFormed(body) == body.json /\ body.hasError

\* C3: for a Balance response that arrived, fetch_balance returns Some(map),
\* the map of the body unchanged, on 2xx with an empty error list and a result
\* map; None on 2xx with a non-empty error list, a result map present or not;
\* None on 2xx with an empty error list and a null or absent result; and None,
\* never an error and whatever the body, on a status outside 2xx.
C3_BalanceResultMapping ==
    BalanceAnswered =>
        LET r == balResp[1]
            b == r.body
        IN /\ (is_success(r.status) /\ WellFormed(b) /\ b.error = <<>>
                  /\ b.hasResult /\ b.result # <<>>)
                 => balJoin = JoinOk(b.result)
           /\ (is_success(r.status) /\ WellFormed(b) /\ b.error # <<>>)
                 => balJoin = JoinOk(<<>>)
           /\ (is_success(r.status) /\ WellFormed(b) /\ b.error = <<>>
                  /\ (~b.hasResult \/ b.result = <<>>))
                 => balJoin = JoinOk(<<>>)
           /\ ~is_success(r.status) => balJoin = JoinOk(<<>>)

C3_Witness ==
    /\ BalanceAnswered
    /\ balResp[1].status = 200
    /\ balResp[1].body.error # <<>>
    /\ balResp[1].body.result # <<>>
    /\ balJoin = JoinOk(<<>>)

\* a string with a character that is neither a base64 symbol nor padding
NotBase64(s) == \E i \in 1..Len(s) : ~IsB64Char(s[i]) /\ s[i] # "="

\* C4: with an API secret that is not base64 no request is ever sent: the
\* balance task ends by the panic of generate_signature, before its send, and
\* the order task is never started.
C4_BadSecretSendsNothing ==
    NotBase64(api_secret) =>
        /\ requests = <<>>
        /\ balPc \in {"idle", "sign", "finished"}
        /\ balPc = "finished" => balJoin = JoinPanic
        /\ ordPc = "idle"

C4_Witness ==
    /\ NotBase64(api_secret)
    /\ mainPc = "done"
    /\ balJoin = JoinPanic
    /\ requests = <<>>

\* C5: the requests sent are a prefix of Balance, AddOrder; the order task
\* runs only once the balance task has finished with its result, so the two
\* calls are never in flight together.
C5_RequestsPrefixOfBalanceAddOrder ==
    /\ Len(requests) <= 2
    /\ \A i \in DOMAIN requests : requests[i].endpoint = <<EP_Balance, EP_AddOrder>>[i]
    /\ ordPc # "idle" => (balPc = "finished" /\ balJoin.kind = "Ok" /\ balResp # <<>>)
    /\ ~(balPc = "await" /\ ordPc = "await")

C5_Witness ==
    /\ mainPc = "done"
    /\ Len(requests) = 2
    /\ requests[2].endpoint = EP_AddOrder
    /\ ordResp # <<>>

\* the Balance call failed: no response, a status outside 2xx, a body that is
\* no envelope, a non-empty error list, or no result
BalanceFailed ==
    /\ balPc = "finished"
    /\ balResp # <<>>
    /\ LET r == balResp[1]
       IN \/ r.transport # "ok"
          \/ ~is_success(r.status)
          \/ ~WellFormed(r.body)
          \/ r.body.error # <<>>
          \/ ~r.body.hasResult
          \/ r.body.result = <<>>

\* C6: after any failure of the Balance call main goes on to its end: it can
\* take its step, it does not panic, it starts no order task and no AddOrder
\* request is sent, and its last line is the diagnostic on stderr.
C6_BalanceFailureAbsorbed ==
    BalanceFailed =>
        /\ mainPc \in {"await_balance", "done"}
        /\ mainPc = "await_balance" => ENABLED MainJoinBalance
        /\ ordPc = "idle"
        /\ ReqsTo(EP_AddOrder) = {}
        /\ mainPc = "done" =>
              log[Len(log)] = Err("Error fetching balance or no balance available.")

C6_Witness ==
    /\ BalanceFailed
    /\ balResp[1].transport = "send_err"
    /\ mainPc = "done"
    /\ log = <<Err("Error fetching balance or no balance available.")>>

\* the AddOrder call failed: no response, a status outside 2xx, a body that
\* is no envelope, or a non-empty error list
OrderFailed ==
    /\ ordPc = "finished"
    /\ ordResp # <<>>
    /\ LET r == ordResp[1]
       IN \/ r.transport # "ok"
          \/ ~is_success(r.status)
          \/ ~WellFormed(r.body)
          \/ r.body.error # <<>>

\* the lines that report a failed order
OrderDiagnostics ==
    {Err("Error placing market order: {:?}"),
     Out("API returned errors: {:?}"),
     Out("Request failed with status code: {}")}

\* C7: after any failure of the AddOrder call the finished process has
\* printed a diagnostic for it, and it ends as after a successful order.
C7_OrderFailureLogged ==
    (OrderFailed /\ mainPc \in {"done", "panicked"}) =>
        /\ mainPc = "done"
        /\ \E i \in DOMAIN log : log[i] \in OrderDiagnostics

\* base64(HMAC-SHA-512(key = decoded secret, endpoint ++ SHA-256(nonce ++ post_data)))
SignatureFormula(secret, nonce, endpoint, post_data) ==
    [b64 |->
        [hmac512 |->
            [key |-> decode(secret)[1],
             msg |-> endpoint \o <<"sha256(">> \o nonce \o post_data \o <<")sha256">>]]]

C9_NoUsableBalanceNoAction ==
    (BalanceFetched /\ ~BalancePositive) =>
        /\ ordPc = "idle"
        /\ ReqsTo(EP_AddOrder) = {}
        /\ mainPc # "panicked"

\* C10: once both requests are sent, the nonce of the AddOrder request is
\* greater than the nonce of the Balance request.
C10_OrderNonceGreater ==
    Len(requests) = 2 =>
        ParseDec(requests[2].form[K_nonce]) > ParseDec(requests[1].form[K_nonce])

\* C10, amended: each nonce sent is the clock reading its task took, so the
\* nonce of the AddOrder request is greater than, equal to or less than the
\* nonce of the Balance request as the second reading is later than, equal to
\* or earlier than the first.
C10_NonceIsClockReading ==
    Len(requests) = 2 =>
        LET nb == ParseDec(requests[1].form[K_nonce])
            no == ParseDec(requests[2].form[K_nonce])
        IN /\ nb = balNow
           /\ no = ordNow
           /\ (no > nb) <=> (ordNow > balNow)
           /\ requests[2].form[K_nonce] = ToDec(ordNow)

C10_Witness ==
    /\ Len(requests) = 2
    /\ ordNow > balNow
    /\ Len(requests[2].form[K_nonce]) > Len(requests[1].form[K_nonce])

====
